---- MODULE Spec2Model ----
(***************************************************************************)
(* A model of aido (src/src/main.rs): the preview -> refine -> accept loop *)
(* of main, the answer normalizer clean_answer and the box renderer        *)
(* print_highlighted_code.                                                 *)
(*                                                                         *)
(* Text is a sequence of characters.  A character is a one-character       *)
(* string, except "bq", the backtick, and "U2", one character whose UTF-8   *)
(* encoding takes two bytes (such as U+00E9): str::len counts bytes, a     *)
(* terminal column holds a character.                                      *)
(***************************************************************************)
EXTENDS Integers, Sequences, FiniteSets, TLC

\* ------------------------------------------------------------------ bounds

\* The largest number of refinements of one run (the loop itself is unbounded).
MaxRefine == 2
\* The longest completion of CleanSpec, in characters.
MaxRawLen == 6
\* The longest completion of RenderSpec, in characters.
MaxCodeLen == 5
\* The widest terminal the model reports, besides the 80-column fallback.
MaxCols == 6
\* highlight_line may fail at its 1st .. MaxHlFail-th call of one render.
MaxHlFail == 1

\* ------------------------------------------------------- program constants

\* unwrap_or(80): the width used when the terminal reports none.
DefaultCols == 80
\* width.saturating_sub(4): the columns taken by the border and its padding.
BorderCols == 4
\* The status of a process whose main returns Ok(()).
ExitOk == 0
\* The status of a process whose main returns Err(_).
ExitErr == 1
\* The status of a process that panics.
ExitPanic == 101
\* status.code().unwrap_or(1): the code reported when the platform gives none.
FallbackCode == 1

\* ------------------------------------------------------------------- text

LF == "\n"
SP == " "
\* The backtick character.
BQ == "bq"

\* char::is_whitespace, over the model's characters.
IsWhitespace(c) == c \in {SP, LF}

\* str::len: the length in bytes.
RECURSIVE ByteLen(_)
ByteLen(s) ==
    IF s = <<>> THEN 0
    ELSE (IF Head(s) = "U2" THEN 2 ELSE 1) + ByteLen(Tail(s))

RECURSIVE TrimStart(_)
TrimStart(s) ==
    IF s = <<>> THEN s
    ELSE IF IsWhitespace(Head(s)) THEN TrimStart(Tail(s)) ELSE s

RECURSIVE TrimEnd(_)
TrimEnd(s) ==
    IF s = <<>> THEN s
    ELSE IF IsWhitespace(s[Len(s)]) THEN TrimEnd(SubSeq(s, 1, Len(s) - 1)) ELSE s

\* str::trim
Trim(s) == TrimEnd(TrimStart(s))

\* A slip of line 118: the fence is looked for anywhere in the text.
StartsWithAnywhere(s, p) ==
    \E i \in 1..(Len(s) - Len(p) + 1) : SubSeq(s, i, i + Len(p) - 1) = p

\* str::starts_with, str::ends_with
StartsWith(s, p) == Len(s) >= Len(p) /\ SubSeq(s, 1, Len(p)) = p
EndsWith(s, p) == Len(s) >= Len(p) /\ SubSeq(s, Len(s) - Len(p) + 1, Len(s)) = p

\* str::find(char): the 1-based place of the first c in s, 0 for None.
Find(s, c) ==
    IF \E i \in 1..Len(s) : s[i] = c
    THEN CHOOSE i \in 1..Len(s) : s[i] = c /\ \A j \in 1..(i - 1) : s[j] # c
    ELSE 0

\* str::rfind(&str): the 1-based place where the last p in s starts, 0 for None.
RFind(s, p) ==
    LET at(i) == SubSeq(s, i, i + Len(p) - 1) = p
        starts == {i \in 1..(Len(s) - Len(p) + 1) : at(i)}
    IN  IF starts = {} THEN 0
        ELSE CHOOSE i \in starts : \A j \in starts : j <= i

Fence == <<BQ, BQ, BQ>>

\* clean_answer: trim, drop an opening fence line, drop a trailing fence, trim.
clean_answer(raw) ==
    LET s0 == Trim(raw)
        nl == Find(s0, LF)
        s1 == IF StartsWith(s0, Fence) /\ nl # 0
              THEN SubSeq(s0, nl + 1, Len(s0))
              ELSE s0
        rf == RFind(s1, Fence)
        s2 == IF EndsWith(s1, Fence) /\ rf # 0
              THEN SubSeq(s1, 1, rf - 1)
              ELSE s1
    IN  Trim(s2)

\* str::lines: split at line feeds; a final line feed ends the last line and
\* opens no further one, so the empty string has no line at all.
RECURSIVE Lines(_)
Lines(s) ==
    IF s = <<>> THEN <<>>
    ELSE LET p == Find(s, LF)
         IN  IF p = 0 THEN <<s>>
             ELSE <<SubSeq(s, 1, p - 1)>> \o Lines(SubSeq(s, p + 1, Len(s)))

\* str::split_whitespace: the maximal runs of non-whitespace characters.
RECURSIVE SplitWhitespace(_)
SplitWhitespace(s) ==
    LET t == TrimStart(s)
        ws == {i \in 1..Len(t) : IsWhitespace(t[i])}
        n == IF ws = {} THEN Len(t) + 1
             ELSE CHOOSE i \in ws : \A j \in ws : i <= j
    IN  IF t = <<>> THEN <<>>
        ELSE <<SubSeq(t, 1, n - 1)>> \o SplitWhitespace(SubSeq(t, n, Len(t)))

\* --------------------------------------------------------------- renderer

\* The state of one call of print_highlighted_code: the visual line being
\* packed (buf, with len its tracked length), the rows printed so far, the
\* number of highlight_line calls made, the number of the logical line at
\* hand, and how the call stands: "run", or ended by "err" (an Err returned
\* through ?) or by "panic".  A row records the logical line it was printed
\* for, its text and the number of spaces padded after it.
RenderStart ==
    [buf |-> <<>>, len |-> 0, rows |-> <<>>, calls |-> 0, line |-> 0,
     status |-> "run"]

\* usize::saturating_sub
SaturatingSub(a, b) == IF a >= b THEN a - b ELSE 0

\* terminal_size().map(|(w, _)| w.0 as usize).unwrap_or(80); size is the
\* column count the terminal reports, 0 when it reports none.
TermWidth(size) == IF size = 0 THEN DefaultCols ELSE size

\* One flush of buf (lines 101-102 and 106-107): highlight_line(&buf)?, then
\* " ".repeat(max - buf.len()), then the row is printed.  failAt is the call
\* of highlight_line that returns Err (0: none does).  max - buf.len() is a
\* usize subtraction: with buf.len() > max it panics on overflow when
\* overflow checks are on, and otherwise wraps to a count above isize::MAX,
\* for which repeat panics with a capacity overflow; no row is printed.
Flush(st, max, failAt) ==
    IF st.calls + 1 = failAt
    THEN [st EXCEPT !.calls = @ + 1, !.status = "err"]
    ELSE IF ByteLen(st.buf) > max
    THEN [st EXCEPT !.calls = @ + 1, !.status = "panic"]
    ELSE [st EXCEPT !.calls = @ + 1,
                    !.rows = Append(@, [line |-> st.line, content |-> st.buf,
                                        pad |-> max - ByteLen(st.buf)])]

\* A slip of lines 100-104: the word that does not fit replaces buf, which is
\* never printed.
WordStepNoFlush(st, word, max, failAt) ==
    IF st.len + ByteLen(word) + 1 <= max
    THEN IF st.buf # <<>>
         THEN [st EXCEPT !.buf = (@ \o <<SP>>) \o word,
                         !.len = (@ + 1) + ByteLen(word)]
         ELSE [st EXCEPT !.buf = word, !.len = @ + ByteLen(word)]
    ELSE [st EXCEPT !.buf = word, !.len = ByteLen(word)]

\* The body of `for word in line.split_whitespace()` (lines 97-104).
WordStep(st, word, max, failAt) ==
    IF st.len + ByteLen(word) + 1 <= max
    THEN IF st.buf # <<>>
         THEN [st EXCEPT !.buf = (@ \o <<SP>>) \o word,
                         !.len = (@ + 1) + ByteLen(word)]
         ELSE [st EXCEPT !.buf = word, !.len = @ + ByteLen(word)]
    ELSE LET f == Flush(st, max, failAt)
         IN  IF f.status # "run" THEN f
             ELSE [f EXCEPT !.buf = word, !.len = ByteLen(word)]

RECURSIVE PackWords(_, _, _, _)
PackWords(st, words, max, failAt) ==
    IF words = <<>> \/ st.status # "run" THEN st
    ELSE PackWords(WordStep(st, Head(words), max, failAt), Tail(words), max, failAt)

\* The body of `for line in code.lines()` (lines 94-107).
RenderLine(st, line, max, failAt) ==
    LET fresh == [st EXCEPT !.buf = <<>>, !.len = 0, !.line = @ + 1]
        packed == PackWords(fresh, SplitWhitespace(line), max, failAt)
    IN  IF packed.status # "run" THEN packed ELSE Flush(packed, max, failAt)

RECURSIVE RenderLines(_, _, _, _)
RenderLines(st, lines, max, failAt) ==
    IF lines = <<>> \/ st.status # "run" THEN st
    ELSE RenderLines(RenderLine(st, Head(lines), max, failAt), Tail(lines), max, failAt)

\* print_highlighted_code(code, ext).  found: the syntax set has a definition
\* for ext; size: what the terminal reports; failAt: see Flush.  The result
\* tells how the call ended, the interior width, whether the top and bottom
\* borders were printed and the rows printed between them.
print_highlighted_code(code, found, size, failAt) ==
    LET max == SaturatingSub(TermWidth(size), BorderCols)
        st == RenderLines(RenderStart, Lines(code), max, failAt)
    IN  IF ~found
        THEN [status |-> "err", max |-> max, top |-> FALSE, rows |-> <<>>,
              bottom |-> FALSE]
        ELSE [status |-> IF st.status = "run" THEN "ok" ELSE st.status,
              max |-> max, top |-> TRUE, rows |-> st.rows,
              bottom |-> st.status = "run"]

\* ------------------------------------------------------------------- main

VARIABLES
    cli,        \* the parsed arguments: prompt, shell, dry_run
    hasSyntax,  \* the syntax set has a definition for the shell's extension
    pc,         \* where main is: AwaitingModel, Presenting, AwaitingUserInput, Done
    messages,   \* the transcript
    req,        \* the transcript of the latest ChatRequest
    raw,        \* the latest completion text
    answer,     \* clean_answer(raw)
    box,        \* this round's call of print_highlighted_code: << >> or <<call>>
    plain,      \* the plain fallback print of this round: << >> or <<text>>
    inputs,     \* the lines read from standard input, oldest first
    printed,    \* the command printed on a dry-run acceptance: << >> or <<text>>
    executed,   \* the Command spawned: << >> or <<[program, args, command]>>
    child,      \* how the spawn ended: << >> or <<outcome>>
    errOut,     \* the code of the "Command failed" message: << >> or <<code>>
    exit,       \* the status the process ended with: << >> or <<status>>
    trace       \* the calls made so far, oldest first

vars == <<cli, hasSyntax, pc, messages, req, raw, answer, box, plain, inputs,
          printed, executed, child, errOut, exit, trace>>

T(str) == CASE str = "a"         -> <<"a">>
            [] str = "a a"       -> <<"a", SP, "a">>
            [] str = "aaaa"      -> <<"a", "a", "a", "a">>
            [] str = "NO ANSWER" -> <<"N", "O", SP, "A", "N", "S", "W", "E", "R">>

\* The questions asked on the command line (cli.prompt.join(" ")).
Prompts == {T("a a")}

Shells == {"Bash", "PowerShell"}

\* The completions of the model: content_text_as_str() is Some(text) or None.
RawTexts ==
    { T("a a"),                                   \* a bare command
      Fence \o <<"s", "h", LF, "a", LF>> \o Fence, \* a fenced command
      Fence,                                      \* a lone fence
      T("aaaa"),                                  \* one long word
      <<"U2", SP, "a">>,                          \* a two-byte character
      <<"a", LF, LF, "a">> }                      \* a blank line inside

Completions ==
    {[some |-> FALSE, text |-> <<>>]} \cup {[some |-> TRUE, text |-> t] : t \in RawTexts}

\* The lines read_line can give: nothing at end of input, else a line with its
\* line feed.
InputLines ==
    { <<>>, <<LF>>, <<SP, LF>>, <<"a", LF>>, <<SP, "a", SP, "a", SP, LF>> }

\* The column counts the terminal reports (0: none).
TermSizes == {0} \cup (BorderCols..MaxCols)

\* How cmd.spawn()?.wait()? can end.
ChildOutcomes ==
    { [kind |-> "spawn_err", code |-> 0],
      [kind |-> "exited", code |-> 0],
      [kind |-> "exited", code |-> 7],
      [kind |-> "signaled", code |-> 0] }

\* ChatMessage::system(format!(...)), ChatMessage::user(text)
SystemTurn(shell) ==
    [role |-> "system",
     text |-> <<IF shell = "Bash" THEN "bash" ELSE "PowerShell">>]
UserTurn(text) == [role |-> "user", text |-> text]

\* The message history built before the loop (lines 149-160).
InitialMessages(c) == <<SystemTurn(c.shell), UserTurn(c.prompt)>>

\* chat_res.content_text_as_str().unwrap_or("NO ANSWER")
ContentText(r) == IF r.some THEN r.text ELSE T("NO ANSWER")

\* A slip of line 182: the line is tested without trim, so that a bare Enter
\* (a line feed) no longer accepts.
AcceptsUntrimmed(line) == line = <<>>

\* if input.trim().is_empty()
Accepts(line) == Trim(line) = <<>>

\* A slip of line 210: the line is pushed as read, without trim.
PushUntrimmed(m, line) == Append(m, UserTurn(line))

\* A slip of line 210: the turn is put in front of the transcript.
PushFront(m, line) == <<UserTurn(Trim(line))>> \o m

\* messages.push(ChatMessage::user(input.trim().to_string()))
Push(m, line) == Append(m, UserTurn(Trim(line)))

\* A slip of line 184: the flag is not looked at.
DryRunIgnored(c) == FALSE

\* if cli.dry_run
DryRun(c) == c.dry_run

\* A slip of lines 186 and 206: no return, the loop goes on.
FallsThrough == "AwaitingModel"

\* Where `return Ok(())` leaves main (lines 186 and 206).
Returned == "Done"

\* A slip of lines 193 and 198: the completion is handed over as it came.
ShellCommandOfRaw(shell, command) ==
    [program |-> IF shell = "Bash" THEN "bash" ELSE "powershell",
     args |-> IF shell = "Bash" THEN <<"-c">> ELSE <<"-NoProfile", "-Command">>,
     command |-> raw]

\* The Command built for the shell (lines 190-201).
ShellCommand(shell, command) ==
    IF shell = "Bash"
    THEN [program |-> "bash", args |-> <<"-c">>, command |-> command]
    ELSE [program |-> "powershell", args |-> <<"-NoProfile", "-Command">>,
          command |-> command]

\* status.success()
Success(o) == o.kind = "exited" /\ o.code = 0

\* eprintln!("Command failed with status: {}", status.code().unwrap_or(1))
Reported(o) ==
    IF o.kind = "spawn_err" \/ Success(o) THEN <<>>
    ELSE IF o.kind = "exited" THEN <<o.code>> ELSE <<FallbackCode>>

\* The status main ends with after cmd.spawn()?.wait()? (lines 202-206): Err
\* from spawn leaves main through ?, every waited child ends in return Ok(()).
ExitOfExecution(o) == IF o.kind = "spawn_err" THEN ExitErr ELSE ExitOk

Count(seq, e) == Cardinality({i \in 1..Len(seq) : seq[i] = e})

Init ==
    /\ cli \in [prompt : Prompts, shell : Shells, dry_run : BOOLEAN]
    /\ hasSyntax \in BOOLEAN
    /\ pc = "AwaitingModel"
    /\ messages = InitialMessages(cli)
    /\ req = <<>>
    /\ raw = <<>>
    /\ answer = <<>>
    /\ box = <<>>
    /\ plain = <<>>
    /\ inputs = <<>>
    /\ printed = <<>>
    /\ executed = <<>>
    /\ child = <<>>
    /\ errOut = <<>>
    /\ exit = <<>>
    /\ trace = <<>>

\* Lines 164-167: the model answers with the completion r.
ModelAnswers(r) ==
    /\ pc = "AwaitingModel"
    /\ req' = messages
    /\ raw' = ContentText(r)
    /\ answer' = clean_answer(ContentText(r))
    /\ trace' = Append(trace, "model_ok")
    /\ pc' = "Presenting"
    /\ UNCHANGED <<cli, hasSyntax, messages, box, plain, inputs, printed,
                   executed, child, errOut, exit>>

\* Lines 164-167: the model answers.
ModelCallOk == \E r \in Completions : ModelAnswers(r)

\* A slip of line 165: the error is dropped and the round goes on.
OnModelErrIgnored == [pc |-> "Presenting", exit |-> <<>>]

\* Where a failed exec_chat leaves main (line 165: `.await?`).
OnModelErr == [pc |-> "Done", exit |-> <<ExitErr>>]

\* Lines 164-165: exec_chat fails and ? returns the error from main.
ModelCallErr ==
    /\ pc = "AwaitingModel"
    /\ req' = messages
    /\ trace' = Append(trace, "model_err")
    /\ pc' = OnModelErr.pc
    /\ exit' = OnModelErr.exit
    /\ UNCHANGED <<cli, hasSyntax, messages, raw, answer, box, plain, inputs,
                   printed, executed, child, errOut>>

\* Lines 170-177: the preview, and its plain fallback when the renderer
\* returns Err; a panic of the renderer ends the process.
Present ==
    /\ pc = "Presenting"
    /\ \E size \in TermSizes, failAt \in 0..MaxHlFail :
        LET out == print_highlighted_code(answer, hasSyntax, size, failAt)
        IN  /\ box' = <<[code |-> answer, size |-> size, failAt |-> failAt,
                         out |-> out]>>
            /\ plain' = IF out.status = "err" THEN <<answer>> ELSE <<>>
            /\ pc' = IF out.status = "panic" THEN "Done" ELSE "AwaitingUserInput"
            /\ exit' = IF out.status = "panic" THEN <<ExitPanic>> ELSE exit
    /\ trace' = Append(trace, "render")
    /\ UNCHANGED <<cli, hasSyntax, messages, req, raw, answer, inputs, printed,
                   executed, child, errOut>>

\* Line 180: read_line fails and unwrap panics.
ReadLineErr ==
    /\ pc = "AwaitingUserInput"
    /\ trace' = Append(trace, "read_err")
    /\ pc' = "Done"
    /\ exit' = <<ExitPanic>>
    /\ UNCHANGED <<cli, hasSyntax, messages, req, raw, answer, box, plain,
                   inputs, printed, executed, child, errOut>>

\* Lines 179-187: a blank line accepts; with --dry-run the command is printed.
AcceptDryRun ==
    /\ pc = "AwaitingUserInput"
    /\ DryRun(cli)
    /\ \E line \in InputLines :
        /\ Accepts(line)
        /\ inputs' = Append(inputs, line)
    /\ printed' = <<answer>>
    /\ trace' = trace \o <<"read", "print">>
    /\ pc' = Returned
    /\ exit' = <<ExitOk>>
    /\ UNCHANGED <<cli, hasSyntax, messages, req, raw, answer, box, plain,
                   executed, child, errOut>>

\* Lines 179-206: a blank line accepts; the command is spawned and waited for.
AcceptExecute ==
    /\ pc = "AwaitingUserInput"
    /\ ~DryRun(cli)
    /\ \E line \in InputLines :
        /\ Accepts(line)
        /\ inputs' = Append(inputs, line)
    /\ \E o \in ChildOutcomes :
        /\ executed' = <<ShellCommand(cli.shell, answer)>>
        /\ child' = <<o>>
        /\ errOut' = Reported(o)
        /\ exit' = <<ExitOfExecution(o)>>
    /\ trace' = trace \o <<"read", "spawn">>
    /\ pc' = Returned
    /\ UNCHANGED <<cli, hasSyntax, messages, req, raw, answer, box, plain,
                   printed>>

\* Lines 179-182 and 209-211: any other line is pushed as a user turn and the
\* loop starts over.
Refine ==
    /\ pc = "AwaitingUserInput"
    /\ Len(messages) - 2 < MaxRefine
    /\ \E line \in InputLines :
        /\ ~Accepts(line)
        /\ inputs' = Append(inputs, line)
        /\ messages' = Push(messages, line)
    /\ box' = <<>>
    /\ plain' = <<>>
    /\ trace' = Append(trace, "read")
    /\ pc' = "AwaitingModel"
    /\ UNCHANGED <<cli, hasSyntax, req, raw, answer, printed, executed, child,
                   errOut, exit>>

Next ==
    \/ ModelCallOk
    \/ ModelCallErr
    \/ Present
    \/ ReadLineErr
    \/ AcceptDryRun
    \/ AcceptExecute
    \/ Refine

Spec == Init /\ [][Next]_vars

\* Every call of the model returns, with a completion or with an error.
FairSpec == Spec /\ WF_vars(ModelCallOk \/ ModelCallErr)

\* ------------------------------------------------- clean_answer on any text

\* Every text of at most n characters of the alphabet.
Texts(alphabet, n) == UNION {[1..k -> alphabet] : k \in 0..n}

\* The characters of the completions of CleanSpec.
RawAlphabet == {"a", BQ, SP, LF}

\* Lines 164-167: the model answers with any text of at most MaxRawLen
\* characters.
ModelCallAny ==
    \E t \in Texts(RawAlphabet, MaxRawLen) : ModelAnswers([some |-> TRUE, text |-> t])

\* One invocation: clean_answer reads nothing of the arguments.
InitClean == Init /\ cli.shell = "Bash" /\ ~cli.dry_run /\ hasSyntax

NextClean == ModelCallAny

\* The first round of main up to clean_answer, on every short completion.
CleanSpec == InitClean /\ [][NextClean]_vars

\* ----------------------------------------- print_highlighted_code on any text

\* The characters of the completions of RenderSpec.
CodeAlphabet == {"a", "U2", SP, LF}

\* Lines 164-167: the model answers with any text of at most MaxCodeLen
\* characters.
ModelCallCode ==
    \E t \in Texts(CodeAlphabet, MaxCodeLen) : ModelAnswers([some |-> TRUE, text |-> t])

\* One invocation, with or without a syntax definition.
InitRender == Init /\ cli.shell = "Bash" /\ ~cli.dry_run

NextRender ==
    \/ ModelCallCode
    \/ Present

\* The first round of main up to the preview, on every short completion.
RenderSpec == InitRender /\ [][NextRender]_vars

\* ------------------------------------------------------------ properties

Last(seq) == seq[Len(seq)]

\* A line with nothing but whitespace in it.
IsBlankLine(line) == \A i \in 1..Len(line) : line[i] \in {SP, LF}

NonBlankInputs == Cardinality({i \in 1..Len(inputs) : ~IsBlankLine(inputs[i])})
ModelCalls == Count(trace, "model_ok") + Count(trace, "model_err")
Reads == Count(trace, "read")
Spawns == Count(trace, "spawn")

\* The user has entered a blank line: the latest line read is one.
BlankEntered == inputs # <<>> /\ IsBlankLine(Last(inputs))

\* C1: without --dry-run and with no failed model call, once the user has
\* entered k non-empty lines and then a blank one, main has called the model
\* exactly k+1 times and has spawned the command exactly once, after the last
\* model call.
C1_CallsAndOneExecution ==
    (~cli.dry_run /\ Count(trace, "model_err") = 0 /\ BlankEntered)
        => /\ Len(inputs) = NonBlankInputs + 1
           /\ ModelCalls = NonBlankInputs + 1
           /\ Spawns = 1
           /\ Len(executed) = 1
           /\ Last(trace) = "spawn"

\* Two refinements, then the acceptance: three model calls and one spawn.
C1_Witness ==
    /\ pc = "Done" /\ ~cli.dry_run /\ BlankEntered
    /\ NonBlankInputs = 2 /\ ModelCalls = 3 /\ Spawns = 1

\* C2: a child that exits with 0 gives status 0; a child that exits with a
\* code c other than 0 is reported and gives status c, and a child the
\* platform reports no code for is reported and gives a status other than 0.
C2_ExitMapping ==
    (child # <<>> /\ child[1].kind # "spawn_err")
        => /\ pc = "Done"
           /\ child[1].kind = "exited" /\ child[1].code = 0
                => exit = <<0>> /\ errOut = <<>>
           /\ child[1].kind = "exited" /\ child[1].code # 0
                => exit = <<child[1].code>> /\ errOut = <<child[1].code>>
           /\ child[1].kind = "signaled"
                => exit # <<>> /\ exit # <<0>> /\ errOut # <<>>

\* C3: with --dry-run nothing is ever spawned, and once a blank line is
\* entered the command printed is the normalized answer of this round, main
\* is done and the status is 0.
C3_DryRunNeverExecutes ==
    cli.dry_run
        => /\ executed = <<>> /\ child = <<>> /\ Spawns = 0
           /\ BlankEntered
                => /\ printed = <<clean_answer(raw)>>
                   /\ pc = "Done"
                   /\ exit = <<ExitOk>>
                   /\ Last(trace) = "print"

\* A dry run accepted after a refinement.
C3_Witness ==
    /\ cli.dry_run /\ pc = "Done" /\ BlankEntered /\ NonBlankInputs >= 1
    /\ printed = <<answer>> /\ answer # <<>>

AssistantTurn(text) == [role |-> "assistant", text |-> text]

IsPrefix(p, q) == Len(p) <= Len(q) /\ SubSeq(q, 1, Len(p)) = p

\* C4: the transcript sent after a refinement is the transcript sent the round
\* before, then the assistant's answer of that round, then the user's
\* feedback as the last turn.
C4_FullDialogue ==
    [][(pc = "AwaitingModel" /\ inputs # <<>> /\ pc' # "AwaitingModel")
        => req' = req \o <<AssistantTurn(raw), UserTurn(Trim(Last(inputs)))>>]_vars

\* The turns the loop has pushed: one user turn for each non-blank line read.
RECURSIVE PushedTurns(_)
PushedTurns(ls) ==
    IF ls = <<>> THEN <<>>
    ELSE IF IsBlankLine(Head(ls)) THEN PushedTurns(Tail(ls))
    ELSE <<UserTurn(Trim(Head(ls)))>> \o PushedTurns(Tail(ls))

\* Once a blank line is entered: it is the last line read, main is done, no
\* model call and no turn came after it.
NothingAfterBlank ==
    (\E i \in 1..Len(inputs) : IsBlankLine(inputs[i]))
        => /\ BlankEntered
           /\ Len(inputs) = NonBlankInputs + 1
           /\ pc = "Done"
           /\ Len(trace) >= 2
           /\ trace[Len(trace) - 1] = "read"
           /\ Last(trace) \in {"spawn", "print"}
           /\ ModelCalls = NonBlankInputs + 1
           /\ messages = InitialMessages(cli) \o PushedTurns(inputs)

\* C5, as claimed: nothing after a blank line, and every invocation that has
\* come to an acceptance has executed exactly one command.
C5_ExactlyOneExecution ==
    /\ NothingAfterBlank
    /\ BlankEntered => Spawns = 1

\* C5, amended: nothing after a blank line, and an invocation executes at most
\* one command: exactly one once a blank line is entered without --dry-run,
\* none in every other case.
C5_AtMostOneExecution ==
    /\ NothingAfterBlank
    /\ Spawns = Len(executed)
    /\ Spawns = IF BlankEntered /\ ~cli.dry_run THEN 1 ELSE 0

\* An acceptance after a refinement, without --dry-run.
C5_Witness ==
    /\ BlankEntered /\ ~cli.dry_run /\ NonBlankInputs >= 1
    /\ pc = "Done" /\ Spawns = 1 /\ Len(messages) >= 3

\* C6: the transcript starts as the system turn and the question, its first
\* turn is always that system turn, and every step leaves the transcript it
\* found as a prefix of the one it makes.
C6_TranscriptAppendOnly ==
    /\ Len(messages) = 2
    /\ messages[1].role = "system" /\ messages[2] = UserTurn(cli.prompt)
    /\ [](messages[1] = SystemTurn(cli.shell))
    /\ [][IsPrefix(messages, messages')]_vars

\* A transcript grown by two refinements.
C6_Witness ==
    /\ Len(messages) = 4
    /\ messages[3].role = "user" /\ messages[4].role = "user"

\* C7: once a model call has failed, main is done with a status other than 0,
\* the failed call is the last thing it did, nothing is spawned, nothing is
\* printed as accepted, and no line was read in that round.
C7_ModelErrorIsFatal ==
    Count(trace, "model_err") > 0
        => /\ pc = "Done"
           /\ Last(trace) = "model_err"
           /\ Count(trace, "model_err") = 1
           /\ exit # <<>> /\ exit # <<0>>
           /\ executed = <<>> /\ child = <<>> /\ printed = <<>>
           /\ Reads = ModelCalls - 1
           /\ Len(inputs) = ModelCalls - 1
           /\ Count(trace, "render") = ModelCalls - 1

\* A model call that fails after a refinement.
C7_Witness ==
    /\ Count(trace, "model_err") = 1 /\ Count(trace, "model_ok") >= 1
    /\ NonBlankInputs >= 1 /\ pc = "Done"

\* C8: a render never ends the program: after it main waits for the user's
\* input, and a render that did not succeed has printed the normalized
\* command plain.
C8_RenderNeverFatal ==
    (trace # <<>> /\ Last(trace) = "render")
        => /\ pc = "AwaitingUserInput"
           /\ exit = <<>>
           /\ box[1].out.status # "ok" => plain = <<answer>>

\* The number of terminal columns a text takes: one for each character.
Columns(text) == Len(text)

\* The words of the rendered text.
RECURSIVE WordsOfLines(_)
WordsOfLines(ls) ==
    IF ls = <<>> THEN {}
    ELSE {SplitWhitespace(Head(ls))[i] : i \in 1..Len(SplitWhitespace(Head(ls)))}
         \cup WordsOfLines(Tail(ls))

\* C9: for a non-empty text and a positive interior width W, every row printed
\* is W columns wide with its padding, and every word of a row is a whole word
\* of the text.
C9_RowsAreExactlyW ==
    (box # <<>> /\ box[1].code # <<>> /\ box[1].out.max > 0)
        => \A i \in 1..Len(box[1].out.rows) :
            LET row == box[1].out.rows[i]
            IN  /\ Columns(row.content) + row.pad = box[1].out.max
                /\ WordsOfLines(<<row.content>>) \subseteq
                       WordsOfLines(Lines(box[1].code))

\* The logical lines of a text: the pieces between its line feeds, so the
\* empty text is one empty line.
RECURSIVE LogicalLines(_)
LogicalLines(text) ==
    LET p == Find(text, LF)
    IN  IF p = 0 THEN <<text>>
        ELSE <<SubSeq(text, 1, p - 1)>> \o LogicalLines(SubSeq(text, p + 1, Len(text)))

\* C10: a render that ends well has printed, for every empty logical line of
\* the text, exactly one row, and that row is empty.
C10_EmptyLineOneRow ==
    (box # <<>> /\ box[1].out.status = "ok")
        => \A n \in 1..Len(LogicalLines(box[1].code)) :
            LogicalLines(box[1].code)[n] = <<>>
                => \E i \in 1..Len(box[1].out.rows) :
                    /\ box[1].out.rows[i].line = n
                    /\ box[1].out.rows[i].content = <<>>
                    /\ \A j \in 1..Len(box[1].out.rows) :
                        box[1].out.rows[j].line = n => j = i

\* ---------------------------------------------- properties of clean_answer

\* The model has answered: answer is clean_answer(raw).
Cleaned == trace # <<>> /\ Last(trace) = "model_ok"

\* C11: clean_answer is idempotent: cleaning the answer again gives the answer.
C11_Idempotent ==
    Cleaned => clean_answer(answer) = answer

\* Whether the fence is in text at place i.
FenceAt(text, i) ==
    /\ i >= 1 /\ i + 2 <= Len(text)
    /\ text[i] = BQ /\ text[i + 1] = BQ /\ text[i + 2] = BQ

BeginsWithFence(text) == FenceAt(text, 1)
EndsWithFence(text) == FenceAt(text, Len(text) - 2)
HoldsFence(text) == \E i \in 1..Len(text) : FenceAt(text, i)

\* The text without the whitespace around it.
Trimmed(text) ==
    LET ink == {i \in 1..Len(text) : text[i] \notin {SP, LF}}
    IN  IF ink = {} THEN <<>>
        ELSE SubSeq(text, CHOOSE i \in ink : \A j \in ink : i <= j,
                          CHOOSE i \in ink : \A j \in ink : j <= i)

\* C12: a text whose trimmed form neither begins nor ends with a fence is only
\* trimmed, so that the fences inside it stay.
C12_InteriorFencesKept ==
    (Cleaned /\ ~BeginsWithFence(Trimmed(raw)) /\ ~EndsWithFence(Trimmed(raw)))
        => answer = Trimmed(raw)

\* A text with a fence inside and whitespace around, cleaned.
C12_Witness ==
    /\ Cleaned /\ ~BeginsWithFence(Trimmed(raw)) /\ ~EndsWithFence(Trimmed(raw))
    /\ HoldsFence(raw) /\ raw # Trimmed(raw) /\ HoldsFence(answer)

\* C13: the answer neither begins nor ends with a fence; so the opening fence
\* of a text that begins with one is gone, with or without a line break
\* after it.
C13_NoLeftoverFence ==
    Cleaned => ~BeginsWithFence(answer) /\ ~EndsWithFence(answer)

\* ------------------------------------------------- properties of the loop

\* C14: a blank line is the last line read and ends main in an acceptance,
\* with nothing pushed for it; the turns after the question are the user
\* turns of the non-blank lines read, each the trimmed and non-empty text of
\* its line.
C14_BlankAcceptsNeverRefines ==
    /\ \A i \in 1..Len(inputs) :
        IsBlankLine(inputs[i])
            => /\ i = Len(inputs)
               /\ pc = "Done"
               /\ Last(trace) \in {"spawn", "print"}
    /\ Len(messages) = 2 + NonBlankInputs
    /\ \A j \in 3..Len(messages) :
        /\ messages[j].role = "user"
        /\ messages[j].text # <<>>
        /\ messages[j].text = Trimmed(inputs[j - 2])

\* A line with whitespace around its text was pushed trimmed, and a line of
\* whitespace alone then accepted.
C14_Witness ==
    /\ Len(inputs) = 2
    /\ inputs[1] # Trimmed(inputs[1]) /\ ~IsBlankLine(inputs[1])
    /\ inputs[2] # <<>> /\ IsBlankLine(inputs[2])
    /\ Len(messages) = 3 /\ pc = "Done"

\* C15: the command spawned, or printed by a dry run, is the normalized answer
\* of the latest completion, and it is the text this round has rendered (and
\* printed plain when the render gave up).
C15_AcceptedIsLatestCandidate ==
    LET latest == clean_answer(raw)
        shown == /\ box # <<>> /\ box[1].code = latest
                 /\ plain # <<>> => plain = <<latest>>
    IN  /\ executed # <<>> => executed[1].command = latest /\ shown
        /\ printed # <<>> => printed = <<latest>> /\ shown

\* After a refinement, a fenced completion is accepted: its normalized form
\* is what was rendered and what is spawned.
C15_Witness ==
    /\ executed # <<>> /\ NonBlankInputs >= 1
    /\ BeginsWithFence(raw) /\ executed[1].command = <<"a">>
    /\ box # <<>> /\ box[1].out.status = "ok"

\* The rows printed for logical line n of this round's render.
RowsOfLine(n) ==
    {i \in 1..Len(box[1].out.rows) : box[1].out.rows[i].line = n}

\* C16: for a logical line with at least one word, all of whose words are no
\* longer than the interior width, no row printed is empty; a render that
\* ends well prints exactly one row for a line of one word.
C16_NoSpuriousEmptyRow ==
    box # <<>>
        => \A n \in 1..Len(Lines(box[1].code)) :
            LET words == SplitWhitespace(Lines(box[1].code)[n])
            IN  (/\ words # <<>>
                 /\ \A k \in 1..Len(words) : ByteLen(words[k]) <= box[1].out.max)
                    => /\ \A i \in RowsOfLine(n) :
                            box[1].out.rows[i].content # <<>>
                       /\ (Len(words) = 1 /\ box[1].out.status = "ok")
                            => Cardinality(RowsOfLine(n)) = 1

\* --------------------------------------------- properties of the renderer

\* The words of the rows printed for logical line n, top to bottom.
RECURSIVE RowWords(_, _)
RowWords(rows, n) ==
    IF rows = <<>> THEN <<>>
    ELSE (IF Head(rows).line = n THEN SplitWhitespace(Head(rows).content) ELSE <<>>)
         \o RowWords(Tail(rows), n)

\* Every word of the text is at most max bytes long.
AllWordsFit(code, max) ==
    \A n \in 1..Len(Lines(code)) :
        \A k \in 1..Len(SplitWhitespace(Lines(code)[n])) :
            ByteLen(SplitWhitespace(Lines(code)[n])[k]) <= max

\* C17: when every word fits the interior width and the render ends well, the
\* rows come in the order of their logical lines, each row belongs to a
\* logical line of the text, and the words of the rows of a logical line, read
\* top to bottom, are the words of that line, in order.
C17_WordsPreserved ==
    (box # <<>> /\ box[1].out.status = "ok" /\ AllWordsFit(box[1].code, box[1].out.max))
        => LET rows == box[1].out.rows
               lines == Lines(box[1].code)
           IN  /\ \A i \in 1..Len(rows) : rows[i].line \in 1..Len(lines)
               /\ \A i \in 1..(Len(rows) - 1) : rows[i].line <= rows[i + 1].line
               /\ \A n \in 1..Len(lines) :
                    RowWords(rows, n) = SplitWhitespace(lines[n])

\* Two logical lines, the first wrapped into several rows.
C17_Witness ==
    /\ box # <<>> /\ box[1].out.status = "ok"
    /\ AllWordsFit(box[1].code, box[1].out.max)
    /\ Len(Lines(box[1].code)) = 2
    /\ Len(SplitWhitespace(Lines(box[1].code)[1])) = 2
    /\ Cardinality(RowsOfLine(1)) >= 2
    /\ Cardinality(RowsOfLine(2)) >= 1

\* ------------------------------------------------------------ termination

\* What one step of main does: a model call leads to the preview or ends
\* main, the preview leads to the prompt or ends main, and a line read either
\* ends main or, being non-empty, leads to the next model call with nothing
\* executed; a main that is done takes no step.
OneStep ==
    /\ pc # "Done"
    /\ pc = "AwaitingModel"
        => pc' \in {"Presenting", "Done"} /\ ModelCalls' = ModelCalls + 1
    /\ pc = "Presenting" => pc' \in {"AwaitingUserInput", "Done"}
    /\ pc = "AwaitingUserInput"
        => \/ pc' = "Done"
           \/ /\ pc' = "AwaitingModel"
              /\ NonBlankInputs' = NonBlankInputs + 1
              /\ ~BlankEntered'
              /\ executed' = <<>> /\ printed' = <<>>

\* C18: a run is done as soon as a blank line is entered; nothing is spawned
\* or printed as accepted without a blank line; while every line entered is
\* non-empty nothing is executed, each step moves main on by one phase, and
\* when the model calls return each line is followed by a model call.
C18_Termination ==
    /\ [](BlankEntered => pc = "Done")
    /\ []((executed # <<>> \/ printed # <<>> \/ Spawns > 0) => BlankEntered)
    /\ [](~BlankEntered
            => /\ executed = <<>> /\ printed = <<>> /\ child = <<>>
               /\ ModelCalls \in {NonBlankInputs, NonBlankInputs + 1}
               /\ ModelCalls = NonBlankInputs => pc = "AwaitingModel")
    /\ [][OneStep]_vars
    /\ (pc = "AwaitingModel") ~> (pc \in {"Presenting", "Done"})

\* A dry run that ends after as many refinements as the model allows.
C18_Witness ==
    /\ pc = "Done" /\ BlankEntered /\ cli.dry_run
    /\ NonBlankInputs = MaxRefine /\ ModelCalls = MaxRefine + 1
====
